---- MODULE Spec2Model ----
(***************************************************************************)
(* The Echoes of Blackwood Manor: the game engine of adventure_game.py as  *)
(* a state machine.  One action is one iteration of the command loop of    *)
(* Game.start: a command line is read, its handler runs to completion      *)
(* (snapshot push, mutation, phantom tick), and the loop's sanity check    *)
(* follows.  random.random() and random.choice() are nondeterministic      *)
(* inputs of the step (roll, pick).                                        *)
(***************************************************************************)
EXTENDS Integers, Sequences, FiniteSets, TLC

VARIABLES
    player,        \* Game.player  (dataclass Player)
    phantom,       \* Game.phantom (dataclass Phantom)
    seed,          \* Game.seed
    safe_code,     \* Game.safe_code
    piano_solved,  \* Game.piano_solved
    rooms,         \* Game.rooms: per room the mutable fields locked, items, exits
    history,       \* Game.history: list of snapshots, newest last
    save_file,     \* save.json: <<>> when absent, else <<snapshot>>
    pc,            \* "setup" (difficulty prompt), "loop" (command loop), "over"
    ncmds,         \* number of command lines dispatched since Init
    last,          \* the last command dispatched and the state it started from
    prev,          \* the command dispatched before it
    past,          \* the states in which the snapshots of history were taken
    rng,           \* the generator of the random module (0 where the draws
                   \* are taken as inputs of the step)
    twin           \* a second, independent session fed the same seed,
                   \* difficulty and lines (<<>> where none is followed)

vars == <<player, phantom, seed, safe_code, piano_solved, rooms, history,
          save_file, pc, ncmds, last, prev, past, rng, twin>>

\* ------------------------------------------------------------- bounds

MaxCmds == 2

\* ---------------------------------------------------------- configuration

MAX_INV_SLOTS == 5
STARTING_SANITY == 100
STARTING_BATTERY == 100
BATTERY_RESTORE == 40
SANITY_RESTORE_AMULET == 25
DRAIN_MOVE == 1
DRAIN_WRONG_CODE == 3
DRAIN_HINT == 5
DRAIN_PHANTOM_ATTACK == 15
BAT_DRAIN_NORMAL == 2
BAT_DRAIN_DARK == 5
BAT_COST_FLASH == 20
DRAIN_WRONG_NOTES == 2
HISTORY_LIMIT == 10
AWAKEN_TURNS == 8
STUN_TURNS == 3
RESOURCE_CAP == 100
THRESH_HALLUCINATE == 60
SHAKE_INTENSITY == 3
PHANTOM_MOVE_PERCENT == 45

None == "none"

Difficulties == {"story", "normal", "hard"}

Seeds == {"1234"}

\* random.randint(100, 999) rendered by str(): the codes the stream may give
SafeCodes == {"137", "482"}

\* ------------------------------------------------------------------ world

RoomIds == {"gate", "foyer", "kitchen", "library", "bedroom", "basement",
            "attic", "garden", "study"}

Directions == {"north", "south", "east", "west", "up", "down"}

ItemIds == {"flashlight", "silver_key", "note", "golden_key", "safe", "piano",
            "amulet", "batteries", "sapphire", "gate_key"}

ItemName(i) ==
    CASE i = "flashlight" -> "Flashlight"
      [] i = "silver_key" -> "Silver Key"
      [] i = "note"       -> "Crumpled Note"
      [] i = "golden_key" -> "Golden Key"
      [] i = "safe"       -> "Safe"
      [] i = "piano"      -> "Grand Piano"
      [] i = "amulet"     -> "Jade Amulet"
      [] i = "batteries"  -> "Spare Batteries"
      [] i = "sapphire"   -> "Star Sapphire"
      [] i = "gate_key"   -> "Iron Key"

\* str.lower() on the item names
Lower(s) ==
    CASE s = "Flashlight"      -> "flashlight"
      [] s = "Silver Key"      -> "silver key"
      [] s = "Crumpled Note"   -> "crumpled note"
      [] s = "Golden Key"      -> "golden key"
      [] s = "Safe"            -> "safe"
      [] s = "Grand Piano"     -> "grand piano"
      [] s = "Jade Amulet"     -> "jade amulet"
      [] s = "Spare Batteries" -> "spare batteries"
      [] s = "Star Sapphire"   -> "star sapphire"
      [] s = "Iron Key"        -> "iron key"
      [] OTHER                 -> s

Takeable(i) == i \notin {"safe", "piano"}

Interactable(i) == i = "note"

\* Item.hidden_text as a list of text pieces; <<>> is None
HiddenText(i, code) == IF i = "note" THEN <<"Code: ", code>> ELSE <<>>

ItemValue(i) ==
    CASE i = "golden_key" -> 50
      [] i = "batteries"  -> 10
      [] i = "sapphire"   -> 500
      [] OTHER            -> 0

Dark(rid) == rid = "basement"

KeyId(rid) ==
    CASE rid = "foyer"    -> "gate_key"
      [] rid = "basement" -> "silver_key"
      [] rid = "garden"   -> "golden_key"
      [] OTHER            -> None

InitExitsGarden(rid) ==
    CASE rid = "gate"     -> ("north" :> "foyer")
      [] rid = "foyer"    -> ("north" :> "library") @@ ("east" :> "kitchen")
                             @@ ("west" :> "bedroom") @@ ("south" :> "garden")
      [] rid = "kitchen"  -> ("west" :> "foyer") @@ ("down" :> "basement")
      [] rid = "library"  -> ("south" :> "foyer") @@ ("up" :> "attic")
      [] rid = "bedroom"  -> ("east" :> "foyer")
      [] rid = "basement" -> ("up" :> "kitchen")
      [] rid = "attic"    -> ("down" :> "library")
      [] rid = "garden"   -> ("north" :> "foyer")
      [] rid = "study"    -> ("west" :> "library")

\* Game._init_world: the exits of the rooms
InitExits(rid) ==
    CASE rid = "gate"     -> ("north" :> "foyer")
      [] rid = "foyer"    -> ("north" :> "library") @@ ("east" :> "kitchen")
                             @@ ("west" :> "bedroom") @@ ("south" :> "gate")
      [] rid = "kitchen"  -> ("west" :> "foyer") @@ ("down" :> "basement")
      [] rid = "library"  -> ("south" :> "foyer") @@ ("up" :> "attic")
      [] rid = "bedroom"  -> ("east" :> "foyer")
      [] rid = "basement" -> ("up" :> "kitchen")
      [] rid = "attic"    -> ("down" :> "library")
      [] rid = "garden"   -> ("north" :> "foyer")
      [] rid = "study"    -> ("west" :> "library")

InitItems(rid) ==
    CASE rid = "gate"     -> <<"gate_key">>
      [] rid = "foyer"    -> <<"flashlight">>
      [] rid = "kitchen"  -> <<"note", "batteries">>
      [] rid = "library"  -> <<"safe", "piano">>
      [] rid = "bedroom"  -> <<"amulet">>
      [] rid = "basement" -> <<"golden_key">>
      [] rid = "study"    -> <<"sapphire">>
      [] OTHER            -> <<>>

InitLocked(rid) == rid \in {"foyer", "basement", "garden"}

InitWorld ==
    [rid \in RoomIds |->
        [locked |-> InitLocked(rid), items |-> InitItems(rid), exits |-> InitExits(rid)]]

\* Game.__init__: the session as constructed for a seed and the code it draws
NewGame(sd, code) ==
    [player |-> [room_id |-> "gate", inventory |-> <<>>, visited |-> {"gate"},
                 journal |-> <<>>, sanity |-> STARTING_SANITY,
                 battery |-> STARTING_BATTERY, turns |-> 0, alive |-> TRUE,
                 escaped |-> FALSE, tutorial_done |-> FALSE, difficulty |-> "normal"],
     phantom |-> [room_id |-> "attic", active |-> FALSE, stun_timer |-> 0],
     seed |-> sd, safe_code |-> code, piano_solved |-> FALSE,
     rooms |-> InitWorld, history |-> <<>>, save_file |-> <<>>, out |-> ""]

\* ---------------------------------------------------------------- helpers

Range(s) == {s[k] : k \in 1..Len(s)}

Max(a, b) == IF a >= b THEN a ELSE b

Min(a, b) == IF a <= b THEN a ELSE b

\* list(a_set): some order of the elements
RECURSIVE SetToSeq(_)
SetToSeq(S) ==
    IF S = {} THEN <<>>
    ELSE LET x == CHOOSE y \in S : TRUE IN <<x>> \o SetToSeq(S \ {x})

\* next((i for i in items if pred), None): hits[k] tells whether the k-th item
\* satisfies pred; the index of the first match, 0 when none
FirstIndex(hits) ==
    IF \E k \in 1..Len(hits) : hits[k]
    THEN CHOOSE k \in 1..Len(hits) : hits[k] /\ \A j \in 1..(k - 1) : ~hits[j]
    ELSE 0

\* list.remove at a known index
RemoveAt(items, k) == SubSeq(items, 1, k - 1) \o SubSeq(items, k + 1, Len(items))

\* Game._room
Room(g, rid) == g.rooms[rid]

\* Game._has
Has(g, item_id) == \E k \in 1..Len(g.player.inventory) : g.player.inventory[k] = item_id

\* Game._diff_mult, in halves: 0.5, 1.0, 1.5
DiffMult(g) ==
    CASE g.player.difficulty = "story" -> 1
      [] g.player.difficulty = "hard"  -> 3
      [] OTHER                         -> 2

\* int(amount * self._diff_mult())
Scaled(g, amount) == (amount * DiffMult(g)) \div 2

\* list(room.exits.values()) as the set random.choice draws from
ExitTargets(g, rid) == {g.rooms[rid].exits[d] : d \in DOMAIN g.rooms[rid].exits}

Say(g, text) == [g EXCEPT !.out = text]

\* ------------------------------------------------------------ save / undo

\* Game._snapshot: the dictionary json.dumps renders
Snapshot(g) ==
    [player |-> [g.player EXCEPT !.visited = SetToSeq(g.player.visited)],
     phantom |-> g.phantom,
     seed |-> g.seed, safe_code |-> g.safe_code, piano_solved |-> g.piano_solved,
     rooms |-> [rid \in RoomIds |->
                  [locked |-> g.rooms[rid].locked,
                   items |-> g.rooms[rid].items,
                   exits |-> g.rooms[rid].exits]]]

\* Game._restore
Restore(g, data) ==
    [g EXCEPT !.seed = data.seed,
              !.safe_code = data.safe_code,
              !.piano_solved = data.piano_solved,
              !.player = [data.player EXCEPT !.visited = Range(data.player.visited)],
              !.phantom = data.phantom,
              !.rooms = [rid \in RoomIds |->
                           IF rid \in DOMAIN data.rooms
                           THEN [locked |-> data.rooms[rid].locked,
                                 items |-> data.rooms[rid].items,
                                 exits |-> data.rooms[rid].exits]
                           ELSE g.rooms[rid]]]

\* the content of save.json: text is "json" when json.loads accepts it, and data
\* is then the dictionary it returns
JsonFile(data) == [text |-> "json", data |-> data]

\* the fields of the dataclasses Player and Phantom
PlayerFields ==
    {"room_id", "inventory", "visited", "journal", "sanity", "battery", "turns",
     "alive", "escaped", "tutorial_done", "difficulty"}

PhantomFields == {"room_id", "active", "stun_timer"}

\* the order in which data["rooms"].items() yields the rooms of a snapshot
RoomOrder ==
    <<"gate", "foyer", "kitchen", "library", "bedroom", "basement", "attic",
      "garden", "study">>

\* Player(**d) and Phantom(**d) raise TypeError on a key that is no field and on
\* a missing field that has no default (room_id)
Accepts(fields, d) == DOMAIN d \subseteq fields /\ "room_id" \in DOMAIN d

\* Player(**d): the fields absent from d take the defaults of the dataclass
PlayerOf(d) ==
    [f \in PlayerFields |->
        IF f \in DOMAIN d THEN d[f]
        ELSE CASE f = "inventory"     -> <<>>
               [] f = "visited"       -> <<>>
               [] f = "journal"       -> <<>>
               [] f = "sanity"        -> STARTING_SANITY
               [] f = "battery"       -> STARTING_BATTERY
               [] f = "turns"         -> 0
               [] f = "alive"         -> TRUE
               [] f = "escaped"       -> FALSE
               [] f = "tutorial_done" -> FALSE
               [] f = "difficulty"    -> "normal"]

\* Phantom(**d)
PhantomOf(d) ==
    [f \in PhantomFields |->
        IF f \in DOMAIN d THEN d[f]
        ELSE CASE f = "active" -> FALSE [] f = "stun_timer" -> 0]

\* the number of fields of a room's section that are assigned before r_data[...]
\* raises KeyError: 3 when none is missing
FieldsRead(r_data) ==
    IF "locked" \notin DOMAIN r_data THEN 0
    ELSE IF "items" \notin DOMAIN r_data THEN 1
    ELSE IF "exits" \notin DOMAIN r_data THEN 2
    ELSE 3

\* the room a restore leaves when it stops after n fields of its section
RoomAfter(room, r_data, n) ==
    [locked |-> IF n >= 1 THEN r_data.locked ELSE room.locked,
     items |-> IF n >= 2 THEN r_data.items ELSE room.items,
     exits |-> IF n >= 3 THEN r_data.exits ELSE room.exits]

\* the index in RoomOrder of the first section a restore cannot read, 0 if none
FirstBadRoom(data) ==
    IF \E k \in 1..Len(RoomOrder) : FieldsRead(data.rooms[RoomOrder[k]]) < 3
    THEN CHOOSE k \in 1..Len(RoomOrder) :
            /\ FieldsRead(data.rooms[RoomOrder[k]]) < 3
            /\ \A j \in 1..(k - 1) : FieldsRead(data.rooms[RoomOrder[j]]) = 3
    ELSE 0

\* an exception that no handler catches: the traceback ends the process
Raise(g) == [g EXCEPT !.out = "Traceback"]

Crashed(g) == g.out = "Traceback"

\* Game._restore on the content of a file, statement by statement: what is
\* assigned before an exception is raised stays assigned (visited is kept as
\* the set of the rooms listed throughout)
RestoreFile(g, file) ==
    IF file.text # "json" THEN Raise(g)
    ELSE
      LET data == file.data
          flags == [g EXCEPT !.seed = data.seed,
                             !.safe_code = data.safe_code,
                             !.piano_solved = data.piano_solved]
          built == [flags EXCEPT !.player = PlayerOf(data.player),
                                 !.player.visited = Range(PlayerOf(data.player).visited)]
          owned == [built EXCEPT !.player.inventory = data.player.inventory]
          haunted == [owned EXCEPT !.phantom = PhantomOf(data.phantom)]
          bad == FirstBadRoom(data)
      IN  IF ~Accepts(PlayerFields, data.player) THEN Raise(flags)
          ELSE IF "inventory" \notin DOMAIN data.player THEN Raise(built)
          ELSE IF ~Accepts(PhantomFields, data.phantom) THEN Raise(owned)
          ELSE LET housed ==
                     [haunted EXCEPT !.rooms =
                        [rid \in RoomIds |->
                           LET k == CHOOSE j \in 1..Len(RoomOrder) : RoomOrder[j] = rid
                           IN  IF bad = 0 \/ k < bad
                               THEN RoomAfter(@[rid], data.rooms[rid], 3)
                               ELSE IF k = bad
                               THEN RoomAfter(@[rid], data.rooms[rid],
                                              FieldsRead(data.rooms[rid]))
                               ELSE @[rid]]]
               IN  IF bad # 0 THEN Raise(housed) ELSE housed

RecordActionDropsNewest(g) ==
    LET pushed == Append(g.history, Snapshot(g))
    IN  [g EXCEPT !.history = IF Len(pushed) > HISTORY_LIMIT
                              THEN SubSeq(pushed, 1, HISTORY_LIMIT) ELSE pushed]

\* Game._record_action
RecordAction(g) ==
    LET pushed == Append(g.history, Snapshot(g))
    IN  [g EXCEPT !.history = IF Len(pushed) > HISTORY_LIMIT THEN Tail(pushed) ELSE pushed]

\* --------------------------------------------------------------- enemy AI

UpdateStatusNoFloor(g) ==
    LET drained == [g EXCEPT !.player.sanity = @ - Scaled(g, DRAIN_MOVE)]
    IN  IF Dark(drained.player.room_id) /\ Has(drained, "flashlight")
        THEN [drained EXCEPT !.player.battery = @ - Scaled(g, BAT_DRAIN_DARK)]
        ELSE IF Has(drained, "flashlight")
        THEN [drained EXCEPT !.player.battery = @ - Scaled(g, BAT_DRAIN_NORMAL)]
        ELSE drained

UpdateStatusFlat(g) ==
    LET drained == [g EXCEPT !.player.sanity = @ - Scaled(g, DRAIN_MOVE)]
    IN  IF Has(drained, "flashlight")
        THEN [drained EXCEPT !.player.battery = Max(0, @ - Scaled(g, BAT_DRAIN_NORMAL))]
        ELSE drained

\* Game._update_status
UpdateStatus(g) ==
    LET drained == [g EXCEPT !.player.sanity = @ - Scaled(g, DRAIN_MOVE)]
    IN  IF Dark(drained.player.room_id) /\ Has(drained, "flashlight")
        THEN [drained EXCEPT !.player.battery = Max(0, @ - Scaled(g, BAT_DRAIN_DARK))]
        ELSE IF Has(drained, "flashlight")
        THEN [drained EXCEPT !.player.battery = Max(0, @ - Scaled(g, BAT_DRAIN_NORMAL))]
        ELSE drained

\* Game._update_phantom; roll is random.random() < CHANCE_PHANTOM_MOVE and pick
\* the room random.choice returns
UpdatePhantom(g, roll, pick) ==
    IF g.phantom.stun_timer > g.player.turns THEN g
    ELSE LET awake == IF /\ g.player.turns > AWAKEN_TURNS
                         /\ ~g.phantom.active
                         /\ g.player.tutorial_done
                      THEN [g EXCEPT !.phantom.active = TRUE]
                      ELSE g
             hit == IF awake.phantom.room_id = awake.player.room_id
                    THEN [awake EXCEPT !.player.sanity =
                                          @ - Scaled(awake, DRAIN_PHANTOM_ATTACK)]
                    ELSE awake
             moved == IF roll /\ ExitTargets(hit, hit.phantom.room_id) # {}
                      THEN [hit EXCEPT !.phantom.room_id = pick]
                      ELSE hit
         IN  IF ~awake.phantom.active THEN awake ELSE moved

\* --------------------------------------------------------------- handlers
\* A command c is [cmd, arg, extra, roll, pick]: the handler's name, its argument
\* string, the line typed at the handler's own prompt, and the random draws.

StunBanishes(g, pick) ==
    [g EXCEPT !.phantom.stun_timer = g.player.turns + STUN_TURNS,
              !.phantom.active = FALSE,
              !.phantom.room_id =
                  IF ExitTargets(g, g.phantom.room_id) # {} THEN pick ELSE @]

StunInPlace(g, pick) ==
    [g EXCEPT !.phantom.stun_timer = g.player.turns + STUN_TURNS]

\* Game.flash, the hit: the stun and the phantom's flight
Stun(g, pick) ==
    [g EXCEPT !.phantom.stun_timer = g.player.turns + STUN_TURNS,
              !.phantom.room_id =
                  IF ExitTargets(g, g.phantom.room_id) # {} THEN pick ELSE @]

FlashUnchecked(g, c) ==
    LET g1 == RecordAction(g)
        cost == Scaled(g1, BAT_COST_FLASH)
        paid == [g1 EXCEPT !.player.battery = Max(0, @ - cost)]
    IN  IF paid.phantom.room_id = paid.player.room_id
        THEN Say(Stun(paid, c.pick), "The Phantom shrieks and flees!")
        ELSE Say(paid, "Nothing but dust moths.")

\* Game.flash
Flash(g, c) ==
    LET g1 == RecordAction(g)
        cost == Scaled(g1, BAT_COST_FLASH)
    IN  IF ~Has(g1, "flashlight") THEN Say(g1, "No flashlight!")
        ELSE IF g1.player.battery < cost THEN Say(g1, "Battery too low!")
        ELSE LET paid == [g1 EXCEPT !.player.battery = @ - cost]
             IN  IF paid.phantom.room_id = paid.player.room_id
                 THEN Say(Stun(paid, c.pick), "The Phantom shrieks and flees!")
                 ELSE Say(paid, "Nothing but dust moths.")

\* Game.listen
Listen(g, c) ==
    LET g1 == RecordAction(g)
        curr == g1.player.room_id
    IN  IF g1.phantom.room_id = curr THEN Say(g1, "IT IS HERE!")
        ELSE IF g1.phantom.room_id \in ExitTargets(g1, curr)
        THEN Say(g1, "You hear shuffling nearby.")
        ELSE Say(g1, "Silence.")

HoldsKeyUnchecked(g, dest) == KeyId(dest) # None

\* Game.move: dest.key_id and self._has(dest.key_id)
HoldsKey(g, dest) == KeyId(dest) # None /\ Has(g, KeyId(dest))

\* Game.move
Move(g, c) ==
    LET g1 == RecordAction(g)
        curr == Room(g1, g1.player.room_id)
    IN  IF c.arg \notin DOMAIN curr.exits THEN Say(g1, "Can't go")
        ELSE
          LET dest == curr.exits[c.arg]
              haskey == HoldsKey(g1, dest)
          IN  IF Room(g1, dest).locked /\ ~haskey THEN Say(g1, "Locked.")
              ELSE
                LET opened == IF Room(g1, dest).locked
                              THEN [g1 EXCEPT !.rooms[dest].locked = FALSE,
                                              !.player.tutorial_done =
                                                  IF dest = "foyer" THEN TRUE ELSE @]
                              ELSE g1
                    entered == [opened EXCEPT !.player.room_id = dest,
                                              !.player.visited = @ \cup {dest},
                                              !.player.turns = @ + 1]
                    ticked == UpdatePhantom(UpdateStatus(entered), c.roll, c.pick)
                IN  IF Dark(dest) /\ ~Has(ticked, "flashlight")
                    THEN Say([ticked EXCEPT !.player.alive = FALSE],
                             "Darkness consumes you.")
                    ELSE IF Dark(dest) /\ ticked.player.battery <= 0
                    THEN Say([ticked EXCEPT !.player.alive = FALSE],
                             "Flashlight dead. You die.")
                    ELSE Say(ticked, IF Room(g1, dest).locked THEN "Unlocked" ELSE "")

\* target.replace("up ", "") on the targets typed
ReplaceUp(t) ==
    CASE t = "up iron key"   -> "iron key"
      [] t = "up flashlight" -> "flashlight"
      [] OTHER               -> t

InventoryOverfull(g) == Len(g.player.inventory) > MAX_INV_SLOTS

\* Game.take: len(self.player.inventory) >= MAX_INV_SLOTS
InventoryFull(g) == Len(g.player.inventory) >= MAX_INV_SLOTS

\* Game.take
Take(g, c) ==
    LET g1 == RecordAction(g)
        target == ReplaceUp(c.arg)
        rid == g1.player.room_id
        items == Room(g1, rid).items
        Match(i) == Lower(ItemName(i)) = target \/ i = target
        k == FirstIndex([j \in 1..Len(items) |-> Match(items[j])])
    IN  IF k = 0 \/ ~Takeable(items[k]) THEN Say(g1, "Can't take")
        ELSE IF InventoryFull(g1) THEN Say(g1, "Inventory full!")
        ELSE Say([g1 EXCEPT !.rooms[rid].items = RemoveAt(items, k),
                            !.player.inventory = Append(@, items[k])],
                 "Taken")

\* `word in target` for the words the handlers look for
Contains(t, word) ==
    CASE word = "battery"   -> t \in {"battery", "the battery"}
      [] word = "batteries" -> t \in {"batteries", "spare batteries"}
      [] word = "amulet"    -> t \in {"amulet", "jade amulet"}
      [] word = "safe"      -> t \in {"safe", "the safe"}
      [] word = "piano"     -> t \in {"piano", "grand piano"}
      [] OTHER              -> FALSE

\* Game.use
Use(g, c) ==
    LET g1 == RecordAction(g)
        inv == g1.player.inventory
        IsBat(i) == i = "batteries"
        IsAmu(i) == i = "amulet"
        bat == FirstIndex([j \in 1..Len(inv) |-> IsBat(inv[j])])
        amu == FirstIndex([j \in 1..Len(inv) |-> IsAmu(inv[j])])
    IN  IF Contains(c.arg, "battery") \/ Contains(c.arg, "batteries")
        THEN IF bat # 0
             THEN Say([g1 EXCEPT !.player.inventory = RemoveAt(inv, bat),
                                 !.player.battery =
                                     Min(RESOURCE_CAP, @ + BATTERY_RESTORE)],
                      "Recharged.")
             ELSE Say(g1, "No batteries.")
        ELSE IF Contains(c.arg, "amulet")
        THEN IF amu # 0
             THEN Say([g1 EXCEPT !.player.inventory = RemoveAt(inv, amu),
                                 !.player.sanity =
                                     Min(RESOURCE_CAP, @ + SANITY_RESTORE_AMULET)],
                      "Sanity restored.")
             ELSE Say(g1, "No amulet.")
        ELSE Say(g1, "Can't use")

\* Game.unlock; c.extra is the line typed at "Code: "
Unlock(g, c) ==
    LET g1 == RecordAction(g)
    IN  IF Contains(c.arg, "safe") /\ g1.player.room_id = "library"
        THEN IF c.extra = g1.safe_code
             THEN Say([g1 EXCEPT !.rooms["library"].items = Append(@, "silver_key")],
                      "Safe opens!")
             ELSE Say([g1 EXCEPT !.player.sanity = @ - Scaled(g1, DRAIN_WRONG_CODE)],
                      "Wrong.")
        ELSE Say(g1, "Nothing to unlock.")

\* input("Notes: ").strip().upper() on the lines typed
StripUpper(s) ==
    CASE s = "dad"   -> "DAD"
      [] s = " dad " -> "DAD"
      [] s = "d-a-d" -> "D-A-D"
      [] s = "d a d" -> "D A D"
      [] s = "ceg"   -> "CEG"
      [] OTHER       -> s

PlayPianoAgain(g, c) ==
    LET g1 == RecordAction(g)
    IN  IF Contains(c.arg, "piano") /\ g1.player.room_id = "library"
        THEN IF StripUpper(c.extra) \in {"DAD", "D-A-D"}
             THEN Say([g1 EXCEPT !.rooms["library"].exits = ("east" :> "study") @@ @,
                                 !.piano_solved = TRUE],
                      "A hidden door slides open to the East!")
             ELSE Say([g1 EXCEPT !.player.sanity = @ - DRAIN_WRONG_NOTES],
                      "Discordant noise!")
        ELSE Say(g1, "No piano.")

\* Game.play_piano; c.extra is the line typed at "Notes: "
PlayPiano(g, c) ==
    LET g1 == RecordAction(g)
    IN  IF Contains(c.arg, "piano") /\ g1.player.room_id = "library"
        THEN IF g1.piano_solved THEN Say(g1, "Already solved.")
             ELSE IF StripUpper(c.extra) \in {"DAD", "D-A-D"}
             THEN Say([g1 EXCEPT !.rooms["library"].exits = ("east" :> "study") @@ @,
                                 !.piano_solved = TRUE],
                      "A hidden door slides open to the East!")
             ELSE Say([g1 EXCEPT !.player.sanity = @ - DRAIN_WRONG_NOTES],
                      "Discordant noise!")
        ELSE Say(g1, "No piano.")

\* f"{item.name}: {item.hidden_text}"
JournalEntry(i, code) == <<ItemName(i), ": ">> \o HiddenText(i, code)

\* Game.look
Look(g, c) ==
    LET all_items == g.player.inventory \o Room(g, g.player.room_id).items
        Match(i) == Lower(ItemName(i)) = c.arg \/ i = c.arg
        k == FirstIndex([j \in 1..Len(all_items) |-> Match(all_items[j])])
    IN  IF c.arg \in {"", "room", "around"} THEN Say(g, "")
        ELSE IF k = 0 THEN Say(g, "Can't see")
        ELSE IF /\ Interactable(all_items[k])
                /\ HiddenText(all_items[k], g.safe_code) # <<>>
        THEN IF HiddenText(all_items[k], g.safe_code) \notin Range(g.player.journal)
             THEN Say([g EXCEPT !.player.journal =
                                   Append(@, JournalEntry(all_items[k], g.safe_code))],
                      "hidden text")
             ELSE Say(g, "hidden text")
        ELSE Say(g, "description")

\* Game.undo
Undo(g, c) ==
    IF g.history = <<>> THEN Say(g, "Nothing to undo.")
    ELSE Say(Restore([g EXCEPT !.history = SubSeq(@, 1, Len(@) - 1)],
                     g.history[Len(g.history)]),
             "Time Rewind.")

HintTakesTurn(g, c) ==
    LET g1 == RecordAction(g)
    IN  Say([g1 EXCEPT !.player.sanity = @ - Scaled(g1, DRAIN_HINT),
                       !.player.turns = @ + 1],
            "HINT")

\* Game.hint
Hint(g, c) ==
    LET g1 == RecordAction(g)
    IN  Say([g1 EXCEPT !.player.sanity = @ - Scaled(g1, DRAIN_HINT)], "HINT")

\* Game.drop
Drop(g, c) ==
    LET g1 == RecordAction(g)
        inv == g1.player.inventory
        Match(i) == Lower(ItemName(i)) = c.arg
        k == FirstIndex([j \in 1..Len(inv) |-> Match(inv[j])])
    IN  IF k # 0
        THEN Say([g1 EXCEPT !.player.inventory = RemoveAt(inv, k),
                            !.rooms[g1.player.room_id].items = Append(@, inv[k])],
                 "Dropped")
        ELSE Say(g1, "Not carrying that.")

\* Game.show_inv, show_journal, show_map, show_help, mute, unmute: output only
Show(g, c) == Say(g, "shown")

\* Game.save_state
SaveState(g, c) == Say([g EXCEPT !.save_file = <<JsonFile(Snapshot(g))>>], "Saved.")

\* Game.load_state
LoadState(g, c) ==
    IF g.save_file # <<>>
    THEN LET read == RestoreFile(g, g.save_file[1])
         IN  IF Crashed(read) THEN read ELSE Say(read, "Loaded.")
    ELSE Say(g, "")

\* ------------------------------------------------------------- game loop

\* Game.cmds: the handler a command name routes to
Dispatch(g, c) ==
    CASE c.cmd = "move"   -> Move(g, c)
      [] c.cmd = "look"   -> Look(g, c)
      [] c.cmd = "take"   -> Take(g, c)
      [] c.cmd = "drop"   -> Drop(g, c)
      [] c.cmd = "use"    -> Use(g, c)
      [] c.cmd = "show"   -> Show(g, c)
      [] c.cmd = "save"   -> SaveState(g, c)
      [] c.cmd = "load"   -> LoadState(g, c)
      [] c.cmd = "unlock" -> Unlock(g, c)
      [] c.cmd = "play"   -> PlayPiano(g, c)
      [] c.cmd = "undo"   -> Undo(g, c)
      [] c.cmd = "hint"   -> Hint(g, c)
      [] c.cmd = "listen" -> Listen(g, c)
      [] c.cmd = "flash"  -> Flash(g, c)

\* Game.start, after the handler returns: the sanity check that ends the loop
MindCheck(g) ==
    IF g.player.sanity <= 0 THEN [g EXCEPT !.player.alive = FALSE] ELSE g

\* Game.start, top of the loop: reaching the garden ends the session
GardenCheck(g) ==
    IF g.player.alive /\ ~g.player.escaped /\ g.player.room_id = "garden"
    THEN [g EXCEPT !.player.escaped = TRUE]
    ELSE g

\* Game.start, after the handler: the checks of the loop, which a traceback
\* never reaches
Settle(h) == IF Crashed(h) THEN h ELSE GardenCheck(MindCheck(h))

\* Game.start: one iteration of the command loop on the command line c
Turn(g, c) == Settle(Dispatch(g, c))

RunningDead(g) == ~g.player.escaped /\ ~Crashed(g)

\* the while condition of Game.start, in a process that has not ended
Running(g) == g.player.alive /\ ~g.player.escaped /\ ~Crashed(g)

\* ------------------------------------------------- observation of a session

\* the state the claims compare: player, phantom, session flags and rooms
Core(g) ==
    [player |-> g.player, phantom |-> g.phantom, seed |-> g.seed,
     safe_code |-> g.safe_code, piano_solved |-> g.piano_solved, rooms |-> g.rooms]

\* the handlers that call _record_action
PushCmds == {"move", "take", "drop", "use", "unlock", "play", "flash", "hint", "listen"}

\* a session: the game and what is remembered about its last commands
\*   last.pre, last.hist: Core and history when the last command was read
\*   last.arg: the direction typed, for a move along an exit of the room
\*   last.top: the newest entry of past when the last command was read
\*   past: the states the history's snapshots were taken in, kept as a stack
\*         of capacity HISTORY_LIMIT that evicts its oldest entry
Track(g) ==
    [g |-> g,
     last |-> [cmd |-> "", arg |-> "", out |-> "", pre |-> Core(g), hist |-> g.history,
               top |-> <<>>],
     prev |-> [cmd |-> "", arg |-> "", out |-> "", pre |-> Core(g)],
     past |-> <<>>]

PastPush(past_, core) ==
    IF Len(past_) >= HISTORY_LIMIT THEN Append(Tail(past_), core) ELSE Append(past_, core)

PastAfter(past_, cmd, core) ==
    IF cmd \in PushCmds THEN PastPush(past_, core)
    ELSE IF cmd = "undo" /\ past_ # <<>> THEN SubSeq(past_, 1, Len(past_) - 1)
    ELSE past_

\* the session after command c, whose loop iteration left the game as g2
After(t, c, g2) ==
    [g |-> g2,
     last |-> [cmd |-> c.cmd,
               arg |-> IF /\ c.cmd = "move"
                          /\ c.arg \in DOMAIN t.g.rooms[t.g.player.room_id].exits
                       THEN c.arg ELSE "",
               out |-> g2.out, pre |-> Core(t.g), hist |-> t.g.history,
               top |-> IF t.past = <<>> THEN <<>> ELSE <<t.past[Len(t.past)]>>],
     prev |-> [cmd |-> t.last.cmd, arg |-> t.last.arg, out |-> t.last.out,
               pre |-> t.last.pre],
     past |-> PastAfter(t.past, c.cmd, Core(t.g))]

Observe(t, c) == After(t, c, Turn(Say(t.g, ""), c))

\* a command line without random draws
Cmd(name, arg, extra) ==
    [cmd |-> name, arg |-> arg, extra |-> extra, roll |-> FALSE, pick |-> "attic"]

\* a command line and the random draws its handler makes
Rnd(name, arg, roll, pick) ==
    [cmd |-> name, arg |-> arg, extra |-> "", roll |-> roll, pick |-> pick]

\* the session after the command lines of script, read while the loop runs
RECURSIVE Play(_, _)
Play(t, script) ==
    IF script = <<>> THEN t
    ELSE LET nxt == Observe(t, Head(script))
         IN  IF Running(nxt.g) THEN Play(nxt, Tail(script)) ELSE nxt

\* Game._select_difficulty
SelectDifficulty(g, d) == [g EXCEPT !.player.difficulty = d]

\* ------------------------------------------------------------ the inputs

DirectionsTyped == Directions \cup {"sideways"}

\* arguments typed after take, drop and look
TargetsTyped ==
    {"iron key", "gate_key", "up iron key", "flashlight", "crumpled note", "note",
     "spare batteries", "batteries", "jade amulet", "silver key", "silver_key",
     "safe", "grand piano", "golden key", "star sapphire", "ghost", "", "around"}

\* arguments typed after use, unlock and play
UseTyped == {"batteries", "spare batteries", "the battery", "amulet", "flashlight"}
UnlockTyped == {"safe", "the safe", "door"}
PlayTyped == {"piano", "grand piano", "drums"}

CodesTyped == SafeCodes \cup {"000"}
NotesTyped == {"dad", "d-a-d", " dad ", "d a d", "ceg"}

\* ----------------------------------------------------------- the machine

Cur ==
    [player |-> player, phantom |-> phantom, seed |-> seed, safe_code |-> safe_code,
     piano_solved |-> piano_solved, rooms |-> rooms, history |-> history,
     save_file |-> save_file, out |-> ""]

CurT == [g |-> Cur, last |-> last, prev |-> prev, past |-> past]

Becomes(t) ==
    /\ player' = t.g.player
    /\ phantom' = t.g.phantom
    /\ seed' = t.g.seed
    /\ safe_code' = t.g.safe_code
    /\ piano_solved' = t.g.piano_solved
    /\ rooms' = t.g.rooms
    /\ history' = t.g.history
    /\ save_file' = t.g.save_file
    /\ last' = t.last
    /\ prev' = t.prev
    /\ past' = t.past

Goes(t) ==
    /\ ncmds < MaxCmds
    /\ Becomes(t)
    /\ pc' = IF Running(t.g) THEN "loop" ELSE "over"
    /\ ncmds' = ncmds + 1
    /\ UNCHANGED <<rng, twin>>

\* the loop reads the command line c; its handler leaves the game as h
Step(c, h) == Goes(After(CurT, c, Settle(h)))

Init ==
    /\ \E sd \in Seeds, code \in SafeCodes :
         /\ player = NewGame(sd, code).player
         /\ phantom = NewGame(sd, code).phantom
         /\ seed = sd
         /\ safe_code = code
         /\ piano_solved = FALSE
         /\ rooms = InitWorld
    /\ history = <<>>
    /\ save_file = <<>>
    /\ pc = "setup"
    /\ ncmds = 0
    /\ last = Track(Cur).last
    /\ prev = Track(Cur).prev
    /\ past = <<>>
    /\ rng = 0
    /\ twin = <<>>

Setup ==
    /\ pc = "setup"
    /\ \E d \in Difficulties : player' = SelectDifficulty(Cur, d).player
    /\ pc' = "loop"
    /\ UNCHANGED <<phantom, seed, safe_code, piano_solved, rooms, history, save_file,
                   ncmds, last, prev, past, rng, twin>>

DoMove ==
    \E d \in DirectionsTyped, roll \in BOOLEAN, pick \in RoomIds :
        /\ pc = "loop"
        /\ pick \in ExitTargets(Cur, phantom.room_id)
        /\ Step(Rnd("move", d, roll, pick), Move(Cur, Rnd("move", d, roll, pick)))

DoLook ==
    /\ pc = "loop"
    /\ \E t \in TargetsTyped : Step(Cmd("look", t, ""), Look(Cur, Cmd("look", t, "")))

DoTake ==
    /\ pc = "loop"
    /\ \E t \in TargetsTyped : Step(Cmd("take", t, ""), Take(Cur, Cmd("take", t, "")))

DoDrop ==
    /\ pc = "loop"
    /\ \E t \in TargetsTyped : Step(Cmd("drop", t, ""), Drop(Cur, Cmd("drop", t, "")))

DoUse ==
    /\ pc = "loop"
    /\ \E t \in UseTyped : Step(Cmd("use", t, ""), Use(Cur, Cmd("use", t, "")))

DoUnlock ==
    /\ pc = "loop"
    /\ \E t \in UnlockTyped, code \in CodesTyped : Step(Cmd("unlock", t, code), Unlock(Cur, Cmd("unlock", t, code)))

DoPlay ==
    /\ pc = "loop"
    /\ \E t \in PlayTyped, notes \in NotesTyped : Step(Cmd("play", t, notes), PlayPiano(Cur, Cmd("play", t, notes)))

DoUndo ==
    /\ pc = "loop"
    /\ Step(Cmd("undo", "", ""), Undo(Cur, Cmd("undo", "", "")))

DoHint ==
    /\ pc = "loop"
    /\ Step(Cmd("hint", "", ""), Hint(Cur, Cmd("hint", "", "")))

DoFlash ==
    \E pick \in RoomIds :
        /\ pc = "loop"
        /\ pick \in ExitTargets(Cur, phantom.room_id)
        /\ Step(Rnd("flash", "", FALSE, pick), Flash(Cur, Rnd("flash", "", FALSE, pick)))

DoListen ==
    /\ pc = "loop"
    /\ Step(Cmd("listen", "", ""), Listen(Cur, Cmd("listen", "", "")))

DoShow ==
    /\ pc = "loop"
    /\ Step(Cmd("show", "", ""), Show(Cur, Cmd("show", "", "")))

DoSave ==
    /\ pc = "loop"
    /\ Step(Cmd("save", "", ""), SaveState(Cur, Cmd("save", "", "")))

DoLoad ==
    /\ pc = "loop"
    /\ Step(Cmd("load", "", ""), LoadState(Cur, Cmd("load", "", "")))

\* input() raises EOFError: the loop breaks
EndOfInput ==
    /\ pc = "loop"
    /\ pc' = "over"
    /\ UNCHANGED <<player, phantom, seed, safe_code, piano_solved, rooms, history,
                   save_file, ncmds, last, prev, past, rng, twin>>

Commands ==
    \/ DoMove \/ DoLook \/ DoTake \/ DoDrop \/ DoUse \/ DoUnlock \/ DoPlay
    \/ DoUndo \/ DoHint \/ DoFlash \/ DoListen \/ DoShow \/ DoSave \/ DoLoad
    \/ EndOfInput

Next == Setup \/ Commands

Spec == Init /\ [][Next]_vars

\* ---------------------------------------------------------------- scenes
\* A scene is the session after a fixed opening of command lines, computed by
\* the handlers themselves (Play); the phantom is dormant throughout, so the
\* openings make no random draw.

Go(d) == Cmd("move", d, "")

Times(c, n) == [k \in 1..n |-> c]

\* to the kitchen, where the note lies
KitchenScript == <<Cmd("take", "iron key", ""), Go("north"), Go("east")>>

\* to the library, where the safe and the piano stand
LibraryScript == <<Cmd("take", "iron key", ""), Go("north"), Go("north")>>

\* fourteen hints asked at the gate
HintsScript == Times(Cmd("hint", "", ""), 14)

\* flashlight and spare batteries in hand, three flashes in the kitchen, then
\* to the foyer and back
BatteryScript ==
    <<Cmd("take", "iron key", ""), Go("north"), Cmd("take", "flashlight", ""),
      Go("east"), Cmd("take", "batteries", "")>> \o Times(Cmd("flash", "", ""), 3)
    \o <<Go("west"), Go("east")>>

\* five items in hand, and the silver key out of the safe on the library floor
InventoryScript(code) ==
    <<Cmd("take", "iron key", ""), Go("north"), Cmd("take", "flashlight", ""),
      Go("east"), Cmd("take", "note", ""), Cmd("take", "batteries", ""),
      Go("west"), Go("west"), Cmd("take", "jade amulet", ""), Go("east"),
      Go("north"), Cmd("unlock", "safe", code)>>

\* flashlight in hand, up to the attic, down and up again twice: turn 7, in the
\* attic beside the dormant phantom
AtticDormant ==
    <<Cmd("take", "iron key", ""), Go("north"), Cmd("take", "flashlight", ""),
      Go("north"), Go("up"), Go("down"), Go("up"), Go("down"), Go("up")>>

\* the same, then a flash at the dormant phantom, which flees down the only exit
AtticStunned == AtticDormant \o <<Rnd("flash", "", FALSE, "library")>>

\* the same as AtticDormant, down and up once more: turn 9, the phantom awake
AtticAwake == AtticDormant \o <<Go("down"), Go("up")>>

\* a scene: the seed, the safe code it draws, the difficulty chosen and the
\* opening typed
Opening(code, d, script) ==
    [sd |-> "1234", code |-> code, d |-> d, script |-> script, file |-> <<>>]

ScenesFresh == {Opening("137", d, <<>>) : d \in Difficulties}

ScenesKitchen == {Opening("482", "normal", KitchenScript)}

ScenesLibrary == {Opening(code, "normal", LibraryScript) : code \in SafeCodes}

ScenesHints == {Opening("137", d, HintsScript) : d \in Difficulties}

ScenesBattery == {Opening("137", d, BatteryScript) : d \in Difficulties}

ScenesInventory == {Opening("482", "normal", InventoryScript("482"))}

ScenesAttic ==
    {Opening("137", "normal", script) : script \in {AtticDormant, AtticStunned, AtticAwake}}

Scenes ==
    ScenesFresh \cup ScenesKitchen \cup ScenesLibrary \cup ScenesHints
    \cup ScenesBattery \cup ScenesInventory \cup ScenesAttic

\* the session after the opening of scene sc
Opened(sc) ==
    Play(Track(SelectDifficulty([NewGame(sc.sd, sc.code) EXCEPT !.save_file = sc.file],
                                sc.d)),
         sc.script)

\* the command loop resumes from the session t
Resume(t) ==
    /\ player = t.g.player
    /\ phantom = t.g.phantom
    /\ seed = t.g.seed
    /\ safe_code = t.g.safe_code
    /\ piano_solved = t.g.piano_solved
    /\ rooms = t.g.rooms
    /\ history = t.g.history
    /\ save_file = t.g.save_file
    /\ last = t.last
    /\ prev = t.prev
    /\ past = t.past
    /\ pc = IF Running(t.g) THEN "loop" ELSE "over"
    /\ ncmds = 0

InitScenes ==
    /\ \E t \in {Opened(sc) : sc \in Scenes} : Resume(t)
    /\ rng = 0
    /\ twin = <<>>

SpecScenes == InitScenes /\ [][Commands]_vars

\* -------------------------------------------------------- further scenes

\* a save.json left by an earlier session, of seed 9876 and safe code 482:
\* written in the kitchen, after the opening KitchenScript
SavedGame ==
    [Snapshot(Opened(Opening("482", "normal", KitchenScript)).g) EXCEPT !.seed = "9876"]

\* the same text cut short: json.loads raises
Garbled(data) == [text |-> "cut short", data |-> data]

Without(d, f) == [k \in DOMAIN d \ {f} |-> d[k]]

\* the files a session may find: the snapshot as written, cut short, and with
\* a field added to or taken from the player's, the phantom's or a room's section
SaveFiles ==
    {JsonFile(SavedGame),
     Garbled(SavedGame),
     JsonFile([SavedGame EXCEPT !.player = ("score" :> 0) @@ @]),
     JsonFile([SavedGame EXCEPT !.player = Without(@, "inventory")]),
     JsonFile([SavedGame EXCEPT !.player = Without(@, "turns")]),
     JsonFile([SavedGame EXCEPT !.phantom = Without(@, "room_id")]),
     JsonFile([SavedGame EXCEPT !.phantom = ("mood" :> "grim") @@ @]),
     JsonFile([SavedGame EXCEPT !.rooms["kitchen"] = Without(@, "items")])}

\* at the gate, a save.json already in the directory
ScenesSaved ==
    {[Opening("137", "normal", <<>>) EXCEPT !.file = <<f>>] : f \in SaveFiles}

\* hard difficulty: flashlight in hand, three flashes in the foyer, then up to
\* the attic: turn 3, beside the dormant phantom, with battery 4
AtticLowBattery ==
    <<Cmd("take", "iron key", ""), Go("north"), Cmd("take", "flashlight", "")>>
    \o Times(Cmd("flash", "", ""), 3) \o <<Go("north"), Go("up")>>

ScenesLowBattery == {Opening("137", "hard", AtticLowBattery)}

ScenesPuzzles ==
    {Opening("482", "normal", KitchenScript), Opening("137", "normal", LibraryScript)}

\* flashlight flashed three times and left in the foyer, the silver key out of
\* the safe, the flashlight picked up again on the way to the kitchen: turn 4,
\* at the top of the basement stairs
CellarDoor(code) ==
    <<Cmd("take", "iron key", ""), Go("north"), Cmd("take", "flashlight", "")>>
    \o Times(Cmd("flash", "", ""), 3)
    \o <<Cmd("drop", "flashlight", ""), Go("north"), Cmd("unlock", "safe", code),
         Cmd("take", "silver key", ""), Go("south"), Cmd("take", "flashlight", ""),
         Go("east")>>

ScenesCellar == {Opening("137", d, CellarDoor("137")) : d \in {"normal", "hard"}}

\* hard difficulty, fourteen hints asked at the gate: sanity 2
ScenesFading == {Opening("137", "hard", HintsScript)}

\* the phantom awake in the attic at turn 9, flashed there (stunned until turn
\* 12, fled to the library), then down and up again: turn 11
AtticFlashed == AtticAwake \o <<Rnd("flash", "", FALSE, "library"), Go("down"), Go("up")>>

ScenesStunned == {Opening("137", "normal", AtticFlashed)}

Trials ==
    ScenesSaved \cup ScenesLowBattery \cup ScenesPuzzles \cup ScenesCellar
    \cup ScenesFading \cup ScenesStunned

InitTrials ==
    /\ \E t \in {Opened(sc) : sc \in Trials} : Resume(t)
    /\ rng = 0
    /\ twin = <<>>

SpecTrials == InitTrials /\ [][Commands]_vars

\* ------------------------------------------------------- haunted scenes

\* the golden key fetched from the basement and carried to the foyer: turn 7,
\* the phantom dormant
GoldenKeyScript(code) ==
    CellarDoor(code) \o <<Go("down"), Cmd("take", "golden key", ""), Go("up"), Go("west")>>

\* beside the phantom in the attic, dormant at turn 7 and awake at turn 9
ScenesPhantom ==
    {Opening("137", d, script) : d \in Difficulties, script \in {AtticDormant, AtticAwake}}

\* at the top of the basement stairs, flashlight and silver key in hand
ScenesStairs == {Opening("137", d, CellarDoor("137")) : d \in Difficulties}

ScenesGoldenKey == {Opening("137", "normal", GoldenKeyScript("137"))}

ScenesPiano == {Opening("137", "normal", LibraryScript)}

Haunts ==
    ScenesFresh \cup ScenesPhantom \cup ScenesStairs \cup ScenesGoldenKey
    \cup ScenesPiano

InitHaunts ==
    /\ \E t \in {Opened(sc) : sc \in Haunts} : Resume(t)
    /\ rng = 0
    /\ twin = <<>>

SpecHaunts == InitHaunts /\ [][Commands]_vars

\* ------------------------------------------------- the random generator
\* The generator of the random module, as a linear congruential generator of
\* full period: seeded once by Game.__init__, advanced by every draw, and left
\* alone by _snapshot and _restore.

RngModulus == 16

RandomNext(x) == (5 * x + 3) % RngModulus

\* the generator after n draws
RECURSIVE Skip(_, _)
Skip(x, n) == IF n = 0 THEN x ELSE Skip(RandomNext(x), n - 1)

\* random.random() < percent / 100, for the draw that left the generator at x
Below(x, percent) == x * 100 < percent * RngModulus

\* random.seed(seed) for the seeds used
SeedState(sd) ==
    CASE sd = "1234" -> 1
      [] sd = "9876" -> 6
      [] sd = "5555" -> 11
      [] sd = "7777" -> 12

\* Game.__init__: the seed given, or one drawn from the system's entropy
SeedFromEntropy(arg, entropy) == entropy

SeedOf(arg, entropy) == IF arg = None THEN entropy ELSE arg

\* str(random.randint(100, 999)) for the draw that left the generator at x
SafeCodeDrawn(x) == ToString(100 + ((x * 900) \div RngModulus))

\* a process: the game and its generator, after Game.__init__
NewSession(arg, entropy) ==
    LET sd == SeedOf(arg, entropy)
        x == RandomNext(SeedState(sd))
    IN  [g |-> NewGame(sd, SafeCodeDrawn(x)), rng |-> x]

\* the words of a room's and of an item's description that _process_text may
\* swap: one draw each
SwapWordsRoom(rid) == IF rid \in {"gate", "foyer", "library"} THEN 1 ELSE 0

SwapWordsItem(i) == IF i = "piano" THEN 1 ELSE 0

\* the draws of the loop's rendering of the room, before the line is read
RenderDraws(g) ==
    IF Dark(g.player.room_id) /\ ~Has(g, "flashlight") THEN 0
    ELSE IF g.player.sanity > THRESH_HALLUCINATE THEN 0
    ELSE SwapWordsRoom(g.player.room_id)

\* list(room.exits.values()): the exits in the order the dictionary keeps
ExitOrder(rid) ==
    IF rid = "library" THEN <<"south", "up", "east">>
    ELSE <<"north", "east", "west", "south", "up", "down">>

ExitList(g, rid) ==
    LET dirs == SelectSeq(ExitOrder(rid), LAMBDA d : d \in DOMAIN g.rooms[rid].exits)
    IN  [k \in 1..Len(dirs) |-> g.rooms[rid].exits[dirs[k]]]

\* the draws of Game.move, given the move's outcome dry when the phantom stays
\* where it is: the shake of an attack, the phantom's roll and its choice of an
\* exit; c is returned with the roll and the pick they give
MoveDraws(g, c, x, dry) ==
    LET acts == /\ dry.player.turns = g.player.turns + 1
                /\ ~(g.phantom.stun_timer > dry.player.turns)
                /\ dry.phantom.active
        x1 == IF acts /\ dry.phantom.room_id = dry.player.room_id
              THEN Skip(x, SHAKE_INTENSITY) ELSE x
        x2 == IF acts THEN RandomNext(x1) ELSE x1
        roll == acts /\ Below(x2, PHANTOM_MOVE_PERCENT)
        opts == ExitList(g, g.phantom.room_id)
        x3 == IF roll /\ opts # <<>> THEN RandomNext(x2) ELSE x2
    IN  [c |-> [c EXCEPT !.roll = roll,
                         !.pick = IF roll /\ opts # <<>>
                                  THEN opts[(x3 % Len(opts)) + 1] ELSE @],
         rng |-> x3]

\* the draw of Game.flash, given its outcome dry: the room a phantom that is
\* hit flees to
FlashDraws(g, c, x, dry) ==
    LET hit == dry.out = "The Phantom shrieks and flees!"
        opts == ExitList(g, g.phantom.room_id)
        x1 == IF hit /\ opts # <<>> THEN RandomNext(x) ELSE x
    IN  [c |-> [c EXCEPT !.pick = IF hit /\ opts # <<>>
                                  THEN opts[(x1 % Len(opts)) + 1] ELSE @],
         rng |-> x1]

\* the draws of Game.look: the description of the item found
LookDraws(g, c, x) ==
    LET all_items == g.player.inventory \o Room(g, g.player.room_id).items
        Match(i) == Lower(ItemName(i)) = c.arg \/ i = c.arg
        k == FirstIndex([j \in 1..Len(all_items) |-> Match(all_items[j])])
    IN  [c |-> c,
         rng |-> IF c.arg \in {"", "room", "around"} \/ k = 0 THEN x
                 ELSE IF g.player.sanity > THRESH_HALLUCINATE THEN x
                 ELSE Skip(x, SwapWordsItem(all_items[k]))]

\* the line c with each outcome the draws of its handler can have
Outcomes(g, c) ==
    {[c EXCEPT !.roll = FALSE]}
    \cup {[c EXCEPT !.roll = r, !.pick = p] :
            r \in BOOLEAN, p \in ExitTargets(g, g.phantom.room_id)}

\* one iteration of the loop of a process s on the line c, its draws taken
\* from the generator
RunLine(s, c) ==
    LET x == Skip(s.rng, RenderDraws(s.g))
        turns == [o \in Outcomes(s.g, c) |-> Turn(Say(s.g, ""), o)]
        dry == turns[[c EXCEPT !.roll = FALSE]]
        drawn == CASE c.cmd = "move"  -> MoveDraws(s.g, c, x, dry)
                   [] c.cmd = "flash" -> FlashDraws(s.g, c, x, dry)
                   [] c.cmd = "look"  -> LookDraws(s.g, c, x)
                   [] OTHER           -> [c |-> c, rng |-> x]
    IN  [g |-> turns[drawn.c], rng |-> drawn.rng]

\* the process after the lines of script, read while the loop runs
RECURSIVE RunLines(_, _)
RunLines(s, script) ==
    IF script = <<>> THEN s
    ELSE LET nxt == RunLine(s, Head(script))
         IN  IF Running(nxt.g) THEN RunLines(nxt, Tail(script)) ELSE nxt

\* list(self.player.visited) in a process whose string hashes order the set by
\* order (PYTHONHASHSEED differs from process to process)
Listing(S, order) == SelectSeq(order, LAMBDA rid : rid \in S)

HashOrder == [k \in 1..Len(RoomOrder) |-> RoomOrder[Len(RoomOrder) + 1 - k]]

\* the snapshots of history and of save.json as that process writes them
Rehash(s) ==
    [s EXCEPT !.g.history =
                 [k \in DOMAIN @ |->
                    [@[k] EXCEPT !.player.visited = Listing(Range(@), HashOrder)]],
              !.g.save_file =
                 [k \in DOMAIN @ |->
                    [@[k] EXCEPT !.data.player.visited = Listing(Range(@), HashOrder)]]]

\* ------------------------------------------------------ two sessions

TwinSeeds == {"1234", "9876"}

Entropy == {"5555", "7777"}

TwinLines ==
    {Go(d) : d \in Directions}
    \cup {Cmd("flash", "", ""), Cmd("undo", "", ""), Cmd("hint", "", ""),
          Cmd("listen", "", ""), Cmd("look", "grand piano", ""),
          Cmd("take", "flashlight", ""), Cmd("save", "", ""), Cmd("load", "", "")}

\* openings: none; to the attic and the phantom's awakening; fourteen hints
TwinScripts == {<<>>, AtticAwake, HintsScript}

\* both processes after the line c
TwinAfter(c) ==
    [k \in 1..2 |-> RunLine(IF k = 1 THEN [g |-> Cur, rng |-> rng] ELSE twin, c)]

\* both processes read the same line
TwinLine ==
    \E c \in TwinLines :
        \E both \in {TwinAfter(c)} :
            /\ pc = "loop"
            /\ ncmds < MaxCmds
            /\ Becomes(After(CurT, c, both[1].g))
            /\ rng' = both[1].rng
            /\ twin' = Rehash(both[2])
            /\ pc' = IF Running(both[1].g) THEN "loop" ELSE "over"
            /\ ncmds' = ncmds + 1

\* both processes after the same seed argument, difficulty and opening
TwinOpened(arg, ea, eb, d, script) ==
    [k \in 1..2 |->
        LET s == NewSession(arg, IF k = 1 THEN ea ELSE eb)
        IN  RunLines([s EXCEPT !.g = SelectDifficulty(@, d)], script)]

InitTwin ==
    \E arg \in TwinSeeds, ea \in Entropy, eb \in Entropy, d \in {"normal", "hard"},
       script \in TwinScripts :
        \E both \in {TwinOpened(arg, ea, eb, d, script)} :
            /\ Resume(Track(both[1].g))
            /\ rng = both[1].rng
            /\ twin = Rehash(both[2])

SpecTwin == InitTwin /\ [][TwinLine \/ EndOfInput]_vars

\* ----------------------------------------------------------------- claims

Holds(core, item_id) ==
    \E k \in 1..Len(core.player.inventory) : core.player.inventory[k] = item_id

\* the room a move along an exit leads to, from the state the move started in
Dest(l) == l.pre.rooms[l.pre.player.room_id].exits[l.arg]

Count(items, i) == Cardinality({k \in 1..Len(items) : items[k] = i})

Copies(i) ==
    Count(player.inventory, i)
    + Count(rooms["gate"].items, i) + Count(rooms["foyer"].items, i)
    + Count(rooms["kitchen"].items, i) + Count(rooms["library"].items, i)
    + Count(rooms["bedroom"].items, i) + Count(rooms["basement"].items, i)
    + Count(rooms["attic"].items, i) + Count(rooms["garden"].items, i)
    + Count(rooms["study"].items, i)

\* C1: when a command that can change the player, the phantom, the flags or a
\* room (move, take, drop, use, unlock, play, flash, hint, or a look that shows
\* hidden text) is followed by undo, the state is again the one the command
\* started from.
C1_UndoRestores ==
    (/\ last.cmd = "undo"
     /\ \/ prev.cmd \in {"move", "take", "drop", "use", "unlock", "play", "flash", "hint"}
        \/ prev.cmd = "look" /\ prev.out = "hidden text")
    => Core(Cur) = prev.pre

\* C2: sanity stays within 0..100.
C2_SanityInRange == player.sanity >= 0 /\ player.sanity <= RESOURCE_CAP

\* C3: battery stays within 0..100.
C3_BatteryInRange == player.battery >= 0 /\ player.battery <= RESOURCE_CAP

\* a move with the flashlight in hand whose drain exceeds the battery left
C3_Witness ==
    /\ last.cmd = "move" /\ last.arg # ""
    /\ player.turns = last.pre.player.turns + 1
    /\ Holds(last.pre, "flashlight")
    /\ last.pre.player.battery > 0
    /\ last.pre.player.battery < Scaled(Cur, BAT_DRAIN_NORMAL)
    /\ player.battery = 0

\* C4: the inventory never holds more than 5 items, and a take issued with 5
\* items in hand changes neither the inventory nor the room's items.
C4_InventoryBounded ==
    /\ Len(player.inventory) <= MAX_INV_SLOTS
    /\ (last.cmd = "take" /\ Len(last.pre.player.inventory) = MAX_INV_SLOTS)
       => /\ player.inventory = last.pre.player.inventory
          /\ rooms[last.pre.player.room_id].items
               = last.pre.rooms[last.pre.player.room_id].items

\* a take of an item that lies in the room, refused for the full inventory
C4_Witness ==
    /\ last.cmd = "take" /\ last.out = "Inventory full!"
    /\ Len(last.pre.player.inventory) = MAX_INV_SLOTS
    /\ "silver_key" \in Range(last.pre.rooms[last.pre.player.room_id].items)

LockedOut(l) ==
    /\ l.cmd = "move" /\ l.arg # ""
    /\ l.pre.rooms[Dest(l)].locked
    /\ ~Holds(l.pre, KeyId(Dest(l)))

\* C5: a move towards a locked room without its key in hand leaves the room
\* locked and the player's room, turns, sanity, battery and the phantom as
\* they were.
C5_LockedMoveNoEffect ==
    LockedOut(last)
    => /\ rooms[Dest(last)].locked
       /\ player.room_id = last.pre.player.room_id
       /\ player.turns = last.pre.player.turns
       /\ player.sanity = last.pre.player.sanity
       /\ player.battery = last.pre.player.battery
       /\ phantom = last.pre.phantom

\* a move down from the kitchen to the locked basement, or north from the gate
C5_Witness == LockedOut(last) /\ last.out = "Locked."

\* C6: every item id occurs at most once over the inventory and all rooms.
C6_ItemsUnique == \A i \in ItemIds : Copies(i) <= 1

\* C7 as claimed: an active phantom stays active whatever command follows.
C7_ActiveForever == [][phantom.active => phantom.active']_vars

\* C7 amended: an active phantom stays active over every command but undo and
\* load, which put back the phantom of the snapshot they restore.
C7_ActiveKept ==
    [][(phantom.active /\ ~(last'.cmd \in {"undo", "load"})) => phantom.active']_vars

\* a flash that hit the active phantom, which stays active
C7_Witness ==
    /\ last.cmd = "flash" /\ last.out = "The Phantom shrieks and flees!"
    /\ last.pre.phantom.active
    /\ phantom.active

\* C8: after a successful move that leaves turns > 8 with the tutorial done,
\* the phantom is active.
C8_AwakeAfterEightTurns ==
    (/\ last.cmd = "move"
     /\ player.turns = last.pre.player.turns + 1
     /\ player.turns > AWAKEN_TURNS
     /\ player.tutorial_done)
    => phantom.active

\* C9: a command (other than undo) that changed the player, the phantom, the
\* flags or a room pushed the snapshot of the state it started from.
C9_SnapshotBeforeChange ==
    (/\ last.cmd \notin {"", "undo"}
     /\ Core(Cur) # last.pre)
    => history = PastPush(last.hist, Snapshot(last.pre))

\* C10: the history holds at most 10 snapshots; a push on a full history drops
\* the oldest and keeps the 9 newest in order; undo takes the newest snapshot
\* off the history and puts back the state it was taken in, so that the
\* history mirrors a stack of the states the pushing commands started from;
\* undo on an empty history changes nothing.
C10_HistoryStack ==
    /\ Len(history) <= HISTORY_LIMIT
    /\ Len(past) = Len(history)
    /\ (last.cmd \in PushCmds /\ Len(last.hist) = HISTORY_LIMIT)
       => /\ Len(history) = HISTORY_LIMIT
          /\ SubSeq(history, 1, HISTORY_LIMIT - 1) = Tail(last.hist)
          /\ Core(Restore(Cur, history[HISTORY_LIMIT])) = last.pre
    /\ (last.cmd = "undo" /\ last.hist # <<>>)
       => /\ history = SubSeq(last.hist, 1, Len(last.hist) - 1)
          /\ last.top # <<>>
          /\ Core(Cur) = last.top[1]
    /\ (last.cmd = "undo" /\ last.hist = <<>>)
       => /\ history = <<>>
          /\ Core(Cur) = last.pre

\* an undo right after a push that found the history full
C10_Witness ==
    /\ last.cmd = "undo" /\ prev.cmd \in PushCmds
    /\ Len(last.hist) = HISTORY_LIMIT
    /\ Len(history) = HISTORY_LIMIT - 1
    /\ Core(Cur) = prev.pre

\* C11: a restore that cannot read the whole snapshot, by undo or by load,
\* leaves seed, safe code, piano flag, player, phantom and every room as they
\* were; and so does a load that finds no save.json.
C11_RestoreAllOrNothing ==
    /\ (last.cmd \in {"undo", "load"} /\ last.out = "Traceback") => Core(Cur) = last.pre
    /\ (last.cmd = "load" /\ save_file = <<>>) => Core(Cur) = last.pre

\* C12: no entry occurs twice in the journal.
C12_JournalDeduplicated ==
    \A i, j \in 1..Len(player.journal) :
        i # j => player.journal[i] # player.journal[j]

\* C13: a flash without a flashlight in hand, or with the battery below the
\* cost of a flash, leaves the phantom's stun timer and room and the battery as
\* they were.
C13_RefusedFlashNoEffect ==
    (/\ last.cmd = "flash"
     /\ \/ ~Holds(last.pre, "flashlight")
        \/ last.pre.player.battery < Scaled(Cur, BAT_COST_FLASH))
    => /\ phantom.stun_timer = last.pre.phantom.stun_timer
       /\ phantom.room_id = last.pre.phantom.room_id
       /\ player.battery = last.pre.player.battery

\* a flash refused for the battery, with the phantom in the player's room
C13_Witness ==
    /\ last.cmd = "flash" /\ last.out = "Battery too low!"
    /\ Holds(last.pre, "flashlight")
    /\ last.pre.phantom.room_id = last.pre.player.room_id

\* C14: a play whose notes are accepted while the piano is unsolved adds the
\* exit east -> study to the library and sets piano_solved; a play while
\* piano_solved is true changes neither player, phantom, rooms nor flags.
C14_PianoSolvedOnce ==
    /\ (last.cmd = "play" /\ last.out = "A hidden door slides open to the East!")
       => /\ ~last.pre.piano_solved
          /\ piano_solved
          /\ "east" \in DOMAIN rooms["library"].exits
          /\ rooms["library"].exits["east"] = "study"
    /\ (last.cmd = "play" /\ last.pre.piano_solved) => Core(Cur) = last.pre

\* the piano played again in the library after the door has opened
C14_Witness ==
    /\ last.cmd = "play" /\ last.out = "Already solved."
    /\ prev.cmd = "play" /\ prev.out = "A hidden door slides open to the East!"
    /\ player.room_id = "library"

DiedInTheDark(l) == l.out \in {"Darkness consumes you.", "Flashlight dead. You die."}

EnteredDark ==
    /\ last.cmd = "move" /\ last.arg # ""
    /\ player.turns = last.pre.player.turns + 1
    /\ Dark(player.room_id)

\* C15: a move that enters a dark room kills the player within the move when
\* no flashlight is in hand or its battery is at 0 or below after the move's
\* drain, and the loop then reads no further command; with a flashlight and
\* battery above 0 the move leaves the player alive (only the loop's sanity
\* check may still end the session).
C15_DarknessKills ==
    /\ [](EnteredDark =>
            IF ~Holds(Core(Cur), "flashlight") \/ player.battery <= 0
            THEN ~player.alive /\ DiedInTheDark(last) /\ pc = "over"
            ELSE ~DiedInTheDark(last) /\ player.alive = (player.sanity > 0))
    /\ [][~player.alive => UNCHANGED <<player, ncmds, last>>]_vars

\* the basement entered with a flashlight whose battery the move's drain
\* brought from above 0 to 0
C15_Witness ==
    /\ EnteredDark
    /\ Holds(last.pre, "flashlight")
    /\ last.pre.player.battery > 0
    /\ player.battery = 0
    /\ ~player.alive
    /\ pc = "over"

\* C16: once alive is false (sanity at 0 or below, darkness, dead battery) an
\* undo can still be dispatched, and an undo dispatched then brings back a
\* state with alive true.
C16_UndoAfterDeath ==
    /\ (~player.alive /\ history # <<>> /\ ncmds < MaxCmds) => ENABLED DoUndo
    /\ (last.cmd = "undo" /\ ~last.pre.player.alive) => player.alive

\* C17 as claimed: turns never decreases, and changes only by +1 on a move.
C17_TurnsMonotonic ==
    [][/\ player.turns' >= player.turns
       /\ player.turns' # player.turns
          => (player.turns' = player.turns + 1 /\ last'.cmd = "move")]_vars

\* C17 amended: over every command but undo and load, turns grows by 1 on a
\* move that enters a room and is unchanged otherwise; undo and load put back
\* the turns of the snapshot they restore.
C17_TurnsKept ==
    [][/\ ncmds' = ncmds => player.turns' = player.turns
       /\ (ncmds' # ncmds /\ last'.cmd \notin {"undo", "load"})
          => IF last'.cmd = "move" /\ last'.out \notin {"Can't go", "Locked."}
             THEN player.turns' = player.turns + 1
             ELSE player.turns' = player.turns]_vars

\* a hint that left turns alone, then a move that added 1
C17_Witness ==
    /\ prev.cmd = "hint" /\ last.pre.player.turns = prev.pre.player.turns
    /\ last.cmd = "move" /\ player.turns = last.pre.player.turns + 1

\* C19: listen leaves player, phantom, rooms, flags and the undo history as
\* they were.
C19_ListenChangesNothing ==
    last.cmd = "listen" => (Core(Cur) = last.pre /\ history = last.hist)

\* C20: a move whose tick runs while turns is at most the stun expiry set by a
\* flash (the tick at the expiry turn included) costs the move's own sanity
\* drain only and leaves the phantom where it was.
C20_InertWhileStunned ==
    (/\ last.cmd = "move"
     /\ player.turns = last.pre.player.turns + 1
     /\ last.pre.phantom.stun_timer > 0
     /\ player.turns <= last.pre.phantom.stun_timer)
    => /\ phantom.room_id = last.pre.phantom.room_id
       /\ player.sanity = last.pre.player.sanity - Scaled(Cur, DRAIN_MOVE)

C21_FlashStuns ==
    (/\ last.cmd = "flash"
     /\ Holds(last.pre, "flashlight")
     /\ last.pre.player.battery >= Scaled(Cur, BAT_COST_FLASH))
    => /\ player.battery = last.pre.player.battery - Scaled(Cur, BAT_COST_FLASH)
       /\ IF last.pre.phantom.room_id = last.pre.player.room_id
          THEN /\ phantom.stun_timer = player.turns + STUN_TURNS
               /\ phantom.room_id \in ExitTargets(last.pre, last.pre.phantom.room_id)
               /\ phantom.room_id # player.room_id
          ELSE [Core(Cur) EXCEPT !.player.battery = last.pre.player.battery] = last.pre

\* the phantom, awake in the attic beside the player, flashed down to the
\* library
C21_Witness ==
    /\ last.cmd = "flash"
    /\ Holds(last.pre, "flashlight")
    /\ last.pre.player.battery >= Scaled(Cur, BAT_COST_FLASH)
    /\ last.pre.phantom.active
    /\ last.pre.phantom.room_id = "attic" /\ player.room_id = "attic"
    /\ phantom.room_id = "library"
    /\ phantom.stun_timer = player.turns + STUN_TURNS

\* C22: a move that enters a room takes int(1 * mult) from sanity before the
\* phantom's tick (which takes its attack, if it attacks, on top), leaves the
\* battery alone when no flashlight is held and otherwise takes int(2 * mult),
\* or int(5 * mult) in a dark destination, from it, never below 0; north from
\* the gate with the iron key leaves the foyer unlocked and tutorial_done set.
C22_MoveDrains ==
    (last.cmd = "move" /\ player.turns = last.pre.player.turns + 1)
    => LET pre == last.pre
           attacked == /\ ~(pre.phantom.stun_timer > player.turns)
                       /\ phantom.active
                       /\ pre.phantom.room_id = player.room_id
           drain == IF Dark(player.room_id) THEN BAT_DRAIN_DARK ELSE BAT_DRAIN_NORMAL
       IN  /\ player.sanity = pre.player.sanity - Scaled(Cur, DRAIN_MOVE)
                              - (IF attacked THEN Scaled(Cur, DRAIN_PHANTOM_ATTACK) ELSE 0)
           /\ player.battery = IF Holds(pre, "flashlight")
                               THEN Max(0, pre.player.battery - Scaled(Cur, drain))
                               ELSE pre.player.battery
           /\ (pre.player.room_id = "gate" /\ last.arg = "north" /\ Holds(pre, "gate_key"))
              => ~rooms["foyer"].locked /\ player.tutorial_done

\* down the stairs into the dark basement, flashlight in hand: the dark drain
C22_Witness ==
    /\ last.cmd = "move"
    /\ player.turns = last.pre.player.turns + 1
    /\ player.room_id = "basement"
    /\ Holds(last.pre, "flashlight")
    /\ player.alive
    /\ player.battery = last.pre.player.battery - Scaled(Cur, BAT_DRAIN_DARK)
    /\ player.sanity = last.pre.player.sanity - Scaled(Cur, DRAIN_MOVE)

\* C23: a move whose tick finds the phantom active, not stunned and in the
\* player's room takes round(15 * mult) from sanity on top of the move's own
\* drain (8, 15 and 22 at story, normal and hard; round() rounds a half to the
\* even neighbour), and a tick that finds the phantom in another room takes
\* nothing.
C23_AttackRounded ==
    (last.cmd = "move" /\ player.turns = last.pre.player.turns + 1)
    => LET pre == last.pre
           attacked == /\ ~(pre.phantom.stun_timer > player.turns)
                       /\ phantom.active
                       /\ pre.phantom.room_id = player.room_id
           halves == DRAIN_PHANTOM_ATTACK * DiffMult(Cur)
           whole == halves \div 2
           rounded == IF halves % 2 = 0 \/ whole % 2 = 0 THEN whole ELSE whole + 1
       IN  pre.player.sanity - Scaled(Cur, DRAIN_MOVE) - player.sanity
           = IF attacked THEN rounded ELSE 0

\* C24: the player is never in the garden and never escaped, and no exit of
\* any room, the one the piano opens included, leads to the garden.
C24_NeverInGarden ==
    /\ player.room_id # "garden"
    /\ ~player.escaped
    /\ \A r \in RoomIds : "garden" \notin ExitTargets(Cur, r)

\* the golden key, which opens the garden, in hand; south out of the foyer
\* leads to the gate
C24_Witness ==
    /\ Holds(Core(Cur), "golden_key")
    /\ last.cmd = "move"
    /\ last.arg = "south"
    /\ last.pre.player.room_id = "foyer"
    /\ player.room_id = "gate"
    /\ pc = "loop"

\* C25: a command that finds the phantom dormant and leaves it dormant
\* changes neither its room nor its stun_timer.
C25_DormantUntouched ==
    (last.cmd # "" /\ ~last.pre.phantom.active /\ ~phantom.active)
    => /\ phantom.room_id = last.pre.phantom.room_id
       /\ phantom.stun_timer = last.pre.phantom.stun_timer

====
